---- MODULE Spec2Model ----
(***************************************************************************)
(* A model of the q-sim network simulation core: the classical data packet *)
(* (classical_network/packet.py), the quantum node, channel and repeater   *)
(* (quantum_network/node.py, channel.py, repeater.py) and the exception    *)
(* taxonomy (core/exceptions.py).                                          *)
(*                                                                         *)
(* Every call of a method is one action.  The variable `last` records the  *)
(* most recent call: its arguments, the exception it ended with ("none"    *)
(* when it returned) and the trace of the calls it made on the way.        *)
(***************************************************************************)
EXTENDS Integers, Sequences, FiniteSets, TLC

VARIABLES
    network,               \* node -> network_type of its Network ("none": not constructed)
    channels,              \* channel -> its fields (NoChannel: not constructed)
    qmemory,               \* node -> QuantumNode.qmemory
    qmemeory_buffer,       \* node -> QuantumNode.qmemeory_buffer (a FIFO Queue)
    quantum_channels_in,   \* QuantumRepeater.quantum_channels_in
    repeater_protocol,     \* QuantumRepeater.repeater_protocol
    last,                  \* the most recent call and its outcome
    from_address,          \* ClassicDataPacket.from_address
    to_address,            \* ClassicDataPacket.to_address
    next_hop,              \* ClassicDataPacket.next_hop
    hops,                  \* ClassicDataPacket.hops
    data,                  \* ClassicDataPacket.data
    type,                  \* ClassicDataPacket.type
    protocol,              \* ClassicDataPacket.protocol
    destination_address,   \* ClassicDataPacket.destination_address
    traversals,            \* number of append_hop calls made on the packet
    is_running,            \* SimulationManager.is_running
    simulation_data,       \* SimulationManager.simulation_data (pk 0: None)
    simulation_world,      \* SimulationManager.simulation_world (run 0: None)
    worker,                \* run -> position of its simulation_worker thread
    stopped,               \* the runs stop() was called on while they ran
    subscriptable,         \* whether SimulationModal supports item access
    pairing,               \* the <<adapter, pair>> relations of the adapters
    carrier,               \* the node holding the packet ("none": no packet sent)
    events,                \* the events emitted for the packet, in order
    agents,                \* AgentManager.agents: the registered agent ids
    active_workflows       \* Coordinator.active_workflows (status "absent": no key)

qvars == <<network, channels, qmemory, qmemeory_buffer, quantum_channels_in,
           repeater_protocol>>
pvars == <<from_address, to_address, next_hop, hops, data, type, protocol,
           destination_address, traversals>>
\* what a method of the quantum network leaves alone, and what a method of
\* the packet leaves alone
mvars == <<is_running, simulation_data, simulation_world, worker, stopped,
           subscriptable>>
\* what a method of the quantum network, of the packet and of the simulation
\* manager leaves alone
avars == <<pairing>>
rvars == <<carrier, events>>
wvars == <<agents, active_workflows>>
nonq == <<pvars, mvars, avars, rvars, wvars>>
nonp == <<qvars, mvars, avars, rvars, wvars>>
nonm == <<qvars, pvars, avars, rvars, wvars>>
nona == <<qvars, pvars, mvars, rvars, wvars>>
nonr == <<qvars, mvars, avars, wvars>>
nonw == <<qvars, pvars, mvars, avars, rvars>>
vars == <<qvars, pvars, mvars, avars, rvars, wvars, last>>

----------------------------------------------------------------------------
(* Bounds of the model *)

\* channel lengths are 0, 500, ..., 500 * MaxHalfKm metres
MaxHalfKm == 2
\* probabilities (loss_per_km, the draw of random.random()) are k / Scale
Scale == 4
\* longest qmemeory_buffer explored
MaxBuf == 1
\* most append_hop calls explored
MaxHops == 3
\* most inbound channels registered on the repeater
MaxChannelsIn == 2
\* most receive_qbit arrivals at one node explored
MaxArrivals == 3
\* most repeated applications of apply_noise to one qubit explored
MaxApplications == 3
\* most simulations started
MaxRuns == 2

----------------------------------------------------------------------------
(* The objects of the world *)

Repeater == "R"
NodeIds == {"A", "B", "N", Repeater}
ChanIds == {"c0", "c1", "c2"}

\* A and B are QuantumHosts (a subclass of QuantumNode), N is a plain
\* QuantumNode, R the QuantumRepeater.
ClassOf(n) ==
    CASE n = "N"      -> "QuantumNode"
      [] n = Repeater -> "QuantumRepeater"
      [] OTHER        -> "QuantumHost"

NetworkType == {"quantum_network", "classical_network"}

\* A qubit is opaque: an identity and the noise it went through.
NoQ == [id |-> "None", damage |-> <<>>]
Qubit(i) == [id |-> i, damage |-> <<>>]
Qubits == {Qubit("q1"), Qubit("q2")}

\* The value of qmemory: a single object (None or a qubit), or a list of slots.
Scalar(v) == [list |-> FALSE, items |-> <<v>>]
Slots(s0, s1) == [list |-> TRUE, items |-> <<s0, s1>>]
NoneMem == Scalar(NoQ)

\* Python truth value of a qmemory value: None and [] are false.
Truthy(m) == IF m.list THEN Len(m.items) > 0 ELSE m.items[1] # NoQ

NoChannel ==
    [node_1 |-> "-", node_2 |-> "-", length |-> 0, loss_per_km |-> 0,
     noise_model |-> "-"]

Lengths == {500 * h : h \in 0..MaxHalfKm}
LossPerKm == {0, Scale \div 2, Scale}
Draws == 0..(Scale - 1)
NoiseModels == {"depolarizing", "dephasing", "amplitude_damping", "default", "bogus"}
Protocols == {"simple_swap", "other"}

----------------------------------------------------------------------------
(* Calls, events and exceptions *)

\* An event of a call's trace; m1 and m2 are the inputs of a Bell measurement.
Ev(ev, node, peer, q, q2, res) ==
    [ev |-> ev, node |-> node, peer |-> peer, q |-> q, q2 |-> q2, res |-> res,
     m1 |-> NoneMem, m2 |-> NoneMem]

BellEv(m1, m2, res) ==
    [ev |-> "perform_bell_measurement", node |-> Repeater, peer |-> "-",
     q |-> NoQ, q2 |-> NoQ, res |-> res, m1 |-> m1, m2 |-> m2]

Call(op, obj, arg, q, draw, err, trace) ==
    [op |-> op, obj |-> obj, arg |-> arg, q |-> q, draw |-> draw, err |-> err,
     trace |-> trace, ret |-> "-"]

\* A request to the simulation API: the names it carries, what the manager's
\* method returned ("-": not called), the exception the method ended with,
\* and the HTTP status of the response.
Request(op, from, to, ret, status, err, trace) ==
    [op |-> op, obj |-> from, arg |-> to, q |-> NoQ, draw |-> status, err |-> err,
     trace |-> trace, ret |-> ret]

NoCall == Call("none", "-", "-", NoQ, -1, "none", <<>>)

\* number of arguments each exception's __init__ takes besides self
ExcArityOne(e) == 1
ExcArity(e) ==
    CASE e = "UnSupportedNetworkError"  -> 2
      [] e = "NotConnectedError"        -> 2
      [] e = "QubitLossError"           -> 1
      [] e = "PairAdapterAlreadyExists" -> 2
      [] e = "PairAdapterDoesNotExists" -> 1
      [] OTHER                          -> 0

\* `raise E(a1, ..., an)`: constructing E with the wrong number of arguments
\* raises TypeError in place of E.
Raise(e, nargs) == IF nargs = ExcArity(e) THEN e ELSE "TypeError"

\* Methods of QuantumHost, by number of arguments besides self (-1: none).
HostMethodArity(name) ==
    CASE name = "receive_qubit"             -> 1
      [] name = "entanglement_swap_outcome" -> 2
      [] OTHER                              -> -1

\* Methods the classes define or inherit, by number of arguments besides self.
MethodArity(c, name) ==
    CASE name = "receive_qbit"  -> 1
      [] name = "set_qmemory"   -> 1
      [] name = "get_qmemory"   -> 0
      [] name = "clear_qmemory" -> 0
      [] name = "receive_qubit" /\ c = "QuantumRepeater" -> 2
      [] c = "QuantumHost"      -> HostMethodArity(name)
      [] OTHER                  -> -1

\* Outcome of looking up and calling method `name` with nargs arguments.
Dispatch(c, name, nargs) ==
    IF MethodArity(c, name) = -1 THEN "AttributeError"
    ELSE IF MethodArity(c, name) # nargs THEN "TypeError"
    ELSE "none"

----------------------------------------------------------------------------
(* quantum_network/node.py *)

UnsupportedNoCheck(net) == FALSE

\* the check of QuantumNode.__init__
Unsupported(net) == net # "quantum_network"

\* QuantumNode.__init__ for node n attached to a Network of type net
QuantumNodeInit(n, net) ==
    /\ network[n] = "none"
    /\ IF Unsupported(net)
       THEN /\ last' = Call("__init__", n, net, NoQ, -1,
                            Raise("UnSupportedNetworkError", 2), <<>>)
            /\ UNCHANGED <<network, qmemory, qmemeory_buffer>>
       ELSE /\ network' = [network EXCEPT ![n] = net]
            /\ qmemory' = [qmemory EXCEPT ![n] = NoneMem]
            /\ qmemeory_buffer' = [qmemeory_buffer EXCEPT ![n] = <<>>]
            /\ last' = Call("__init__", n, net, NoQ, -1, "none", <<>>)

ConstructNode(n, net) ==
    /\ n # Repeater
    /\ QuantumNodeInit(n, net)
    /\ UNCHANGED <<channels, quantum_channels_in, repeater_protocol>>
    /\ UNCHANGED nonq

\* QuantumRepeater.__init__: the fields are set after super().__init__ returned
ConstructRepeater(net, proto) ==
    /\ QuantumNodeInit(Repeater, net)
    /\ IF Unsupported(net)
       THEN UNCHANGED <<quantum_channels_in, repeater_protocol>>
       ELSE /\ quantum_channels_in' = <<>>
            /\ repeater_protocol' = proto
    /\ UNCHANGED channels
    /\ UNCHANGED nonq

\* Queue(): maxsize 0, a queue without a capacity limit
QueueMaxSize == 0

\* Queue.put blocks while a queue with a capacity limit is full
QueueFull(buf) == QueueMaxSize > 0 /\ Len(buf) >= QueueMaxSize

\* Queue.put on a FIFO queue
QueuePutFront(buf, q) == <<q>> \o buf
QueuePut(buf, q) == Append(buf, q)

receive_qbit(n, q) ==
    /\ network[n] # "none"
    /\ Len(qmemeory_buffer[n]) < MaxArrivals
    /\ ~QueueFull(qmemeory_buffer[n])
    /\ qmemeory_buffer' = [qmemeory_buffer EXCEPT ![n] = QueuePut(@, q)]
    /\ last' = Call("receive_qbit", n, "-", q, -1, "none", <<>>)
    /\ UNCHANGED <<network, channels, qmemory, quantum_channels_in,
                   repeater_protocol>>
    /\ UNCHANGED nonq

\* the qubit a call record shows for a qmemory value: the qubit itself, or
\* None for a list of slots
Shown(m) == IF m.list THEN NoQ ELSE m.items[1]

set_qmemory_once(n, m) ==
    /\ network[n] # "none"
    /\ qmemory' = [qmemory EXCEPT ![n] = IF @ = NoneMem THEN m ELSE @]
    /\ last' = Call("set_qmemory", n, "-", Shown(m), -1, "none", <<>>)
    /\ UNCHANGED <<network, channels, qmemeory_buffer, quantum_channels_in,
                   repeater_protocol>>
    /\ UNCHANGED nonq

set_qmemory(n, m) ==
    /\ network[n] # "none"
    /\ qmemory' = [qmemory EXCEPT ![n] = m]
    /\ last' = Call("set_qmemory", n, "-", Shown(m), -1, "none", <<>>)
    /\ UNCHANGED <<network, channels, qmemeory_buffer, quantum_channels_in,
                   repeater_protocol>>
    /\ UNCHANGED nonq

\* the value get_qmemory returns
get_qmemory(n) == qmemory[n]

\* a call of get_qmemory
call_get_qmemory(n) ==
    /\ network[n] # "none"
    /\ last' = Call("get_qmemory", n, "-", Shown(get_qmemory(n)), -1, "none", <<>>)
    /\ UNCHANGED qvars
    /\ UNCHANGED nonq

\* the value clear_qmemory leaves in qmemory
Cleared == NoneMem

clear_qmemory(n) ==
    /\ network[n] # "none"
    /\ qmemory' = [qmemory EXCEPT ![n] = Cleared]
    /\ last' = Call("clear_qmemory", n, "-", NoQ, -1, "none", <<>>)
    /\ UNCHANGED <<network, channels, qmemeory_buffer, quantum_channels_in,
                   repeater_protocol>>
    /\ UNCHANGED nonq

----------------------------------------------------------------------------
(* quantum_network/channel.py *)

ChannelInit(c, n1, n2, len, loss, noise) ==
    /\ channels[c] = NoChannel
    /\ n1 # n2
    /\ network[n1] # "none"
    /\ network[n2] # "none"
    /\ channels' = [channels EXCEPT ![c] =
            [node_1 |-> n1, node_2 |-> n2, length |-> len, loss_per_km |-> loss,
             noise_model |-> noise]]
    /\ last' = Call("QuantumChannel", c, n1, NoQ, -1, "none", <<>>)
    /\ UNCHANGED <<network, qmemory, qmemeory_buffer, quantum_channels_in,
                   repeater_protocol>>
    /\ UNCHANGED nonq

\* random.random() < 1 - (1 - loss_per_km) ** (length / 1000), with the draw
\* r / Scale, loss_per_km = loss / Scale and length a multiple of 500:
\*   r/S < 1 - ((S-l)/S)^(k/2)  <=>  (S-l)^k * S^2 < (S-r)^2 * S^k
\* Python's float power: x ** 0 is 1 for every x, 0 included.
RECURSIVE Pow(_, _)
Pow(b, e) == IF e = 0 THEN 1 ELSE b * Pow(b, e - 1)

LossNeverFires(r, loss, len) == FALSE
LossFires(r, loss, len) ==
    LET k == len \div 500
    IN  Pow(Scale - loss, k) * Pow(Scale, 2) < Pow(Scale - r, 2) * Pow(Scale, k)

apply_noise_any(noise, q) == [q EXCEPT !.damage = Append(@, noise)]
apply_noise(noise, q) ==
    IF noise \in {"depolarizing", "dephasing", "amplitude_damping"}
    THEN [q EXCEPT !.damage = Append(@, noise)]
    ELSE q

call_apply_noise_degrading(c, q) ==
    /\ channels[c] # NoChannel
    /\ channels' = [channels EXCEPT ![c].noise_model = "depolarizing"]
    /\ last' = Call("apply_noise", c, "-", q, -1, "none",
                    <<Ev("apply_noise", c, "-", q,
                         apply_noise(channels[c].noise_model, q), -1)>>)
    /\ UNCHANGED <<network, qmemory, qmemeory_buffer, quantum_channels_in,
                   repeater_protocol>>
    /\ UNCHANGED nonq

\* a call of apply_noise on channel c
call_apply_noise(c, q) ==
    /\ channels[c] # NoChannel
    /\ last' = Call("apply_noise", c, "-", q, -1, "none",
                    <<Ev("apply_noise", c, "-", q,
                         apply_noise(channels[c].noise_model, q), -1)>>)
    /\ UNCHANGED qvars
    /\ UNCHANGED nonq

\* the destination transmit_qubit resolves
ToNode(ch, from_node) == IF ch.node_1 = from_node THEN ch.node_2 ELSE ch.node_1

\* number of arguments transmit_qubit passes to QubitLossError
LossErrorArgs == 2

transmit_qubit(c, q, from_node, r) ==
    LET ch == channels[c]
        noisy == apply_noise(ch.noise_model, q)
        to == ToNode(ch, from_node)
        noiseEv == Ev("apply_noise", c, "-", q, noisy, -1)
        recvEv == Ev("receive_qubit", to, "-", noisy, NoQ, -1)
        d == Dispatch(ClassOf(to), "receive_qubit", 1)
    IN  /\ ch # NoChannel
        /\ network[from_node] # "none"
        /\ IF LossFires(r, ch.loss_per_km, ch.length)
           THEN /\ last' = Call("transmit_qubit", c, from_node, q, r,
                                Raise("QubitLossError", LossErrorArgs), <<>>)
                /\ UNCHANGED qmemeory_buffer
           ELSE IF d # "none"
           THEN /\ last' = Call("transmit_qubit", c, from_node, q, r, d,
                                <<noiseEv>>)
                /\ UNCHANGED qmemeory_buffer
           ELSE /\ Len(qmemeory_buffer[to]) < MaxBuf
                /\ qmemeory_buffer' =
                       [qmemeory_buffer EXCEPT ![to] = Append(@, noisy)]
                /\ last' = Call("transmit_qubit", c, from_node, q, r, "none",
                                <<noiseEv, recvEv>>)
        /\ UNCHANGED <<network, channels, qmemory, quantum_channels_in,
                       repeater_protocol>>
        /\ UNCHANGED nonq

----------------------------------------------------------------------------
(* quantum_network/repeater.py *)

add_quantum_channel_in(c) ==
    /\ network[Repeater] # "none"
    /\ channels[c] # NoChannel
    /\ Len(quantum_channels_in) < MaxChannelsIn
    /\ quantum_channels_in' = Append(quantum_channels_in, c)
    /\ last' = Call("add_quantum_channel_in", Repeater, c, NoQ, -1, "none", <<>>)
    /\ UNCHANGED <<network, channels, qmemory, qmemeory_buffer, repeater_protocol>>
    /\ UNCHANGED nonq

AnyFilled(m) == \E i \in 1..Len(m.items) : m.items[i] # NoQ

\* all(self.qmemory) on a list of slots
AllFilled(m) == \A i \in 1..Len(m.items) : m.items[i] # NoQ

\* The condition of simple_entanglement_swap, evaluated left to right:
\* "skip" when it is false, "go" when it is true, "TypeError" when all() is
\* applied to a single qubit, which is not iterable.
SwapGuard ==
    LET m == qmemory[Repeater]
    IN  IF ~Truthy(m) THEN "skip"
        ELSE IF Len(quantum_channels_in) < 2 THEN "skip"
        ELSE IF ~m.list THEN "TypeError"
        ELSE IF AllFilled(m) THEN "go"
        ELSE "skip"

\* the node the swap reads from and notifies for inbound channel i (from 1)
SwapPeer(i) == channels[quantum_channels_in[i]].node_2

NotificationsOtherResult(n0, n1, bit) ==
    <<Ev("entanglement_swap_outcome", n0, n1, NoQ, NoQ, bit),
      Ev("entanglement_swap_outcome", n1, n0, NoQ, NoQ, 1 - bit)>>

NotificationsSamePeer(n0, n1, bit) ==
    <<Ev("entanglement_swap_outcome", n0, n1, NoQ, NoQ, bit),
      Ev("entanglement_swap_outcome", n0, n1, NoQ, NoQ, bit)>>

\* the two entanglement_swap_outcome calls of the swap, in order
Notifications(n0, n1, bit) ==
    <<Ev("entanglement_swap_outcome", n0, n1, NoQ, NoQ, bit),
      Ev("entanglement_swap_outcome", n1, n0, NoQ, NoQ, bit)>>

\* simple_entanglement_swap called as `op`; bit is the draw of
\* perform_bell_measurement
Swap(op, bit) ==
    LET n0 == SwapPeer(1)
        n1 == SwapPeer(2)
        bell == BellEv(get_qmemory(n0), get_qmemory(n1), bit)
        out0 == Notifications(n0, n1, bit)[1]
        out1 == Notifications(n0, n1, bit)[2]
        clr == Ev("clear_qmemory", Repeater, "-", NoQ, NoQ, -1)
        d0 == Dispatch(ClassOf(n0), "entanglement_swap_outcome", 2)
        d1 == Dispatch(ClassOf(n1), "entanglement_swap_outcome", 2)
        done(err, trace) == last' = Call(op, Repeater, "-", NoQ, -1, err, trace)
    IN  IF SwapGuard = "skip" THEN done("none", <<>>) /\ UNCHANGED qmemory
        ELSE IF SwapGuard = "TypeError"
        THEN done("TypeError", <<>>) /\ UNCHANGED qmemory
        ELSE IF d0 # "none" THEN done(d0, <<bell>>) /\ UNCHANGED qmemory
        ELSE IF d1 # "none" THEN done(d1, <<bell, out0>>) /\ UNCHANGED qmemory
        ELSE /\ done("none", <<bell, out0, out1, clr>>)
             /\ qmemory' = [qmemory EXCEPT ![Repeater] = Cleared]

simple_entanglement_swap(bit) ==
    /\ network[Repeater] # "none"
    /\ Swap("simple_entanglement_swap", bit)
    /\ UNCHANGED <<network, channels, qmemeory_buffer, quantum_channels_in,
                   repeater_protocol>>
    /\ UNCHANGED nonq

forward(bit) ==
    /\ network[Repeater] # "none"
    /\ IF repeater_protocol = "simple_swap"
       THEN Swap("forward", bit)
       ELSE /\ last' = Call("forward", Repeater, "-", NoQ, -1, "none", <<>>)
            /\ UNCHANGED qmemory
    /\ UNCHANGED <<network, channels, qmemeory_buffer, quantum_channels_in,
                   repeater_protocol>>
    /\ UNCHANGED nonq

\* self.qmemory[i] = qubit (i from 1): item assignment needs a list
StoreSlot(i, q, c) ==
    LET m == qmemory[Repeater]
    IN  IF m.list /\ i <= Len(m.items)
        THEN /\ qmemory' = [qmemory EXCEPT ![Repeater] =
                               [m EXCEPT !.items = [@ EXCEPT ![i] = q]]]
             /\ last' = Call("receive_qubit", Repeater, c, q, -1, "none", <<>>)
        ELSE /\ last' = Call("receive_qubit", Repeater, c, q, -1,
                             IF m.list THEN "IndexError" ELSE "TypeError", <<>>)
             /\ UNCHANGED qmemory

\* QuantumRepeater.receive_qubit(qubit, channel)
receive_qubit(q, c) ==
    LET ins == quantum_channels_in
        fail(err) == /\ last' = Call("receive_qubit", Repeater, c, q, -1, err, <<>>)
                     /\ UNCHANGED qmemory
    IN  /\ network[Repeater] # "none"
        /\ channels[c] # NoChannel
        /\ IF Len(ins) = 0 THEN fail("IndexError")
           ELSE IF c = ins[1] THEN StoreSlot(1, q, c)
           ELSE IF Len(ins) < 2 THEN fail("IndexError")
           ELSE IF c = ins[2] THEN StoreSlot(2, q, c)
           ELSE /\ last' = Call("receive_qubit", Repeater, c, q, -1, "none",
                                <<Ev("print", Repeater, "-", q, NoQ, -1)>>)
                /\ UNCHANGED qmemory
        /\ UNCHANGED <<network, channels, qmemeory_buffer, quantum_channels_in,
                       repeater_protocol>>
        /\ UNCHANGED nonq

----------------------------------------------------------------------------
(* classical_network/packet.py *)

ClassicNodes == {"H1", "R1", "H2"}
\* values of the opaque arguments of a packet; "None" is Python's None
Payloads == {"hello", ""}
PacketTypes == {"DATA", "ACK"}
PacketProtocols == {"tcp", "udp"}
NoNode == "None"

ClassicDataPacketNextFrom(d, f, t, ty, pr, dest) ==
    [from_address |-> f, to_address |-> t, type |-> ty, hops |-> <<f>>,
     protocol |-> pr, next_hop |-> f, data |-> d, destination_address |-> dest]

\* ClassicDataPacket.__init__: the fields of the packet it creates
ClassicDataPacket(d, f, t, ty, pr, dest) ==
    [from_address |-> f, to_address |-> t, type |-> ty, hops |-> <<f>>,
     protocol |-> pr, next_hop |-> t, data |-> d, destination_address |-> dest]

\* the packet of the model is the packet p, just created
Created(p) ==
    /\ from_address = p.from_address
    /\ to_address = p.to_address
    /\ type = p.type
    /\ hops = p.hops
    /\ protocol = p.protocol
    /\ next_hop = p.next_hop
    /\ data = p.data
    /\ destination_address = p.destination_address
    /\ traversals = 0

\* a call creates the packet p, which becomes the packet of the model
Create(p) ==
    /\ from_address' = p.from_address
    /\ to_address' = p.to_address
    /\ type' = p.type
    /\ hops' = p.hops
    /\ protocol' = p.protocol
    /\ next_hop' = p.next_hop
    /\ data' = p.data
    /\ destination_address' = p.destination_address
    /\ traversals' = 0

\* self.hops.append(hop)
PrependedHops(hop) == <<hop>> \o hops
AppendedHops(hop) == Append(hops, hop)

append_hop_reroute(hop) ==
    /\ traversals < MaxHops
    /\ hops' = Append(hops, hop)
    /\ next_hop' = hop
    /\ traversals' = traversals + 1
    /\ last' = Call("append_hop", "packet", hop, NoQ, -1, "none", <<>>)
    /\ UNCHANGED <<from_address, to_address, data, type, protocol,
                   destination_address>>
    /\ UNCHANGED nonp

append_hop_prepend(hop) ==
    /\ traversals < MaxHops
    /\ hops' = <<hop>> \o hops
    /\ traversals' = traversals + 1
    /\ last' = Call("append_hop", "packet", hop, NoQ, -1, "none", <<>>)
    /\ UNCHANGED <<from_address, to_address, next_hop, data, type, protocol,
                   destination_address>>
    /\ UNCHANGED nonp

append_hop(hop) ==
    /\ traversals < MaxHops
    /\ hops' = AppendedHops(hop)
    /\ traversals' = traversals + 1
    /\ last' = Call("append_hop", "packet", hop, NoQ, -1, "none", <<>>)
    /\ UNCHANGED <<from_address, to_address, next_hop, data, type, protocol,
                   destination_address>>
    /\ UNCHANGED nonp

\* ClassicDataPacket.to_dict: builds a dict of strings from the fields (the
\* names of the hops go into a new list); 'destination_address' is the
\* destination's name, or None
to_dict ==
    /\ last' = [Call("to_dict", "packet", "-", NoQ, -1, "none", <<>>)
                   EXCEPT !.ret = destination_address]
    /\ UNCHANGED pvars
    /\ UNCHANGED nonp

----------------------------------------------------------------------------
(* server/api/simulation/manager.py and simulation.py *)

Runs == 1..MaxRuns
NoData == [pk |-> 0, status |-> "None"]
NoWorld == [run |-> 0, is_running |-> FALSE]
\* the names of the nodes of the World's networks, and the names a command
\* may carry
WorldNodeNames == {"alice", "bob"}
Names == WorldNodeNames \cup {"ghost"}

\* the World simulate_from_json returns for run r: the driver polls its
\* is_running until World.stop() clears it
NewWorld(r) == [run |-> r, is_running |-> TRUE]
WorldStop(w) == [w EXCEPT !.is_running = FALSE]

Alive(r) == worker[r] \notin {"none", "done"}
AliveWorkers == {r \in Runs : Alive(r)}
NextRun == Cardinality({r \in Runs : worker[r] # "none"}) + 1

\* SimulationManager.start_simulation: the value it returns, the thread it
\* starts
start_simulation ==
    IF is_running
    THEN \* return False; the route raises HTTPException(409) inside its own
         \* try, whose `except Exception` answers 500
         /\ last' = Request("execute_simulation", "-", "-", "False", 500, "none", <<>>)
         /\ UNCHANGED mvars
    ELSE /\ NextRun \in Runs
         /\ is_running' = TRUE
         /\ simulation_data' = [pk |-> NextRun, status |-> "PENDING"]
         /\ worker' = [worker EXCEPT ![NextRun] = "created"]
         /\ last' = Request("execute_simulation", "-", "-", "True", 201, "none",
                            <<Ev("Thread.start", "manager", "-", NoQ, NoQ, NextRun)>>)
         /\ UNCHANGED <<simulation_world, stopped, subscriptable>>

\* the route POST /{topology_id}
execute_simulation == start_simulation /\ UNCHANGED nonm

\* SimulationManager.stop, called on a running manager
stop ==
    /\ is_running' = FALSE
    /\ simulation_data' = [simulation_data EXCEPT !.status = "COMPLETED"]
    /\ stopped' = stopped \cup {simulation_data.pk}
    /\ IF simulation_world = NoWorld
       THEN \* None.stop()
            /\ last' = Request("stop_simulation", "-", "-", "raised", 500,
                               "AttributeError", <<>>)
            /\ UNCHANGED simulation_world
       ELSE /\ simulation_world' = WorldStop(simulation_world)
            /\ last' = Request("stop_simulation", "-", "-", "None", 200, "none",
                               <<Ev("World.stop", "manager", "-", NoQ, NoQ,
                                    simulation_world.run)>>)
    /\ UNCHANGED <<worker, subscriptable>>

\* the route DELETE /
stop_simulation ==
    /\ IF ~is_running
       THEN /\ last' = Request("stop_simulation", "-", "-", "-", 400, "none", <<>>)
            /\ UNCHANGED mvars
       ELSE stop
    /\ UNCHANGED nonm

\* the loop of send_message_command: a node matching from_node_name is never
\* compared with to_node_name
FromResolved(from, to) == from \in WorldNodeNames
ToResolved(from, to) == to \in WorldNodeNames /\ to # from

\* SimulationManager.send_message_command
send_message_command(from, to) ==
    /\ IF simulation_world = NoWorld
       THEN \* None.networks
            last' = Request("send_simulation_message", from, to, "raised", 500,
                            "AttributeError", <<>>)
       ELSE IF ~(FromResolved(from, to) /\ ToResolved(from, to))
       THEN last' = Request("send_simulation_message", from, to, "None", 200, "none",
                            <<Ev("emit_event", "simulation_error", "-", NoQ, NoQ, -1)>>)
       ELSE last' = Request("send_simulation_message", from, to, "None", 200, "none",
                            <<Ev("send_data", from, to, NoQ, NoQ, -1)>>)
    /\ UNCHANGED mvars

\* the route POST /message/
send_simulation_message(from, to) ==
    /\ IF ~is_running
       THEN /\ last' = Request("send_simulation_message", from, to, "-", 400, "none",
                               <<>>)
            /\ UNCHANGED mvars
       ELSE send_message_command(from, to)
    /\ UNCHANGED nonm

\* simulation_worker, lines 134-142: emit simulation_started, mark RUNNING
worker_mark_running(r) ==
    /\ worker[r] = "created"
    /\ simulation_data' = [simulation_data EXCEPT !.status = "RUNNING"]
    /\ worker' = [worker EXCEPT ![r] = "marked"]
    /\ UNCHANGED <<is_running, simulation_world, stopped, subscriptable, last>>
    /\ UNCHANGED nonm

\* line 143: simulate_from_json returns the World, or raises
worker_build_world(r, ok) ==
    /\ worker[r] = "marked"
    /\ IF ok
       THEN /\ simulation_world' = NewWorld(r)
            /\ worker' = [worker EXCEPT ![r] = "poll"]
       ELSE /\ worker' = [worker EXCEPT ![r] = "except"]
            /\ UNCHANGED simulation_world
    /\ UNCHANGED <<is_running, simulation_data, stopped, subscriptable, last>>
    /\ UNCHANGED nonm

\* lines 147-148: while self.simulation_world.is_running: time.sleep(5)
worker_poll(r) ==
    /\ worker[r] = "poll"
    /\ worker' = [worker EXCEPT ![r] =
                     IF simulation_world.is_running THEN "poll" ELSE "complete"]
    /\ UNCHANGED <<is_running, simulation_data, simulation_world, stopped,
                   subscriptable, last>>
    /\ UNCHANGED nonm

\* lines 150-157: self.simulation_data["results"], then mark COMPLETED
worker_complete(r) ==
    /\ worker[r] = "complete"
    /\ IF subscriptable
       THEN /\ simulation_data' = [simulation_data EXCEPT !.status = "COMPLETED"]
            /\ worker' = [worker EXCEPT ![r] = "finally"]
       ELSE /\ worker' = [worker EXCEPT ![r] = "except"]
            /\ UNCHANGED simulation_data
    /\ UNCHANGED <<is_running, simulation_world, stopped, subscriptable, last>>
    /\ UNCHANGED nonm

\* lines 159-164 and _handle_error: the item assignment of line 274 raises
\* unless SimulationModal supports it, and line 280 re-raises the error, so
\* that lines 161-164 are never run
worker_handle_error(r) ==
    /\ worker[r] = "except"
    /\ IF subscriptable
       THEN /\ simulation_data' = [simulation_data EXCEPT !.status = "error"]
            /\ is_running' = FALSE
       ELSE UNCHANGED <<simulation_data, is_running>>
    /\ worker' = [worker EXCEPT ![r] = "finally"]
    /\ UNCHANGED <<simulation_world, stopped, subscriptable, last>>
    /\ UNCHANGED nonm

\* lines 166-169: if self.is_running: self.is_running = False
worker_finally(r) ==
    /\ worker[r] = "finally"
    /\ is_running' = FALSE
    /\ worker' = [worker EXCEPT ![r] = "done"]
    /\ UNCHANGED <<simulation_data, simulation_world, stopped, subscriptable, last>>
    /\ UNCHANGED nonm

----------------------------------------------------------------------------
(* The quantum adapter's pairing.  Only its two exceptions are part of        *)
(* core/exceptions.py; the pairing itself follows the specification: an       *)
(* adapter owns at most one pair, a second assignment raises                  *)
(* PairAdapterAlreadyExists(q_adapter, pair), a query of an unset pair raises *)
(* PairAdapterDoesNotExists(q_adapter).                                       *)

AdapterIds == {"X1", "X2", "X3"}
PairsOf(a) == {p \in pairing : p[1] = a}

add_paired_adapter(a, b) ==
    /\ a # b
    /\ IF PairsOf(a) # {}
       THEN /\ last' = Call("add_paired_adapter", a, b, NoQ, -1,
                            Raise("PairAdapterAlreadyExists", 2), <<>>)
            /\ UNCHANGED pairing
       ELSE /\ pairing' = pairing \cup {<<a, b>>}
            /\ last' = Call("add_paired_adapter", a, b, NoQ, -1, "none", <<>>)
    /\ UNCHANGED nona

get_paired_adapter(a) ==
    /\ IF PairsOf(a) = {}
       THEN last' = Call("get_paired_adapter", a, "-", NoQ, -1,
                         Raise("PairAdapterDoesNotExists", 1), <<>>)
       ELSE last' = [Call("get_paired_adapter", a, "-", NoQ, -1, "none", <<>>)
                        EXCEPT !.ret = (CHOOSE p \in PairsOf(a) : TRUE)[2]]
    /\ UNCHANGED pairing
    /\ UNCHANGED nona

----------------------------------------------------------------------------
(* Classical routing.  The host and router classes are not part of the       *)
(* sources; sending, routing and receiving follow the specification: the     *)
(* sender creates the packet and emits DATA_SENT, a node that is not the     *)
(* packet's to_address appends itself to hops, sets next_hop to the          *)
(* neighbour it chooses, hands the packet over and emits PACKET_ROUTED, and  *)
(* the destination emits DATA_RECEIVED or PACKET_RECEIVED.                   *)

Hosts == {"H1", "H2", "H3"}
Routers == {"R1", "R2"}
\* H1 and H2 are attached to R1, H3 to R2, and R1 is linked with R2
Gateway(h) == IF h = "H3" THEN "R2" ELSE "R1"
ForwardingTable(r, dest) ==
    IF Gateway(dest) = r THEN dest ELSE CHOOSE o \in Routers : o # r

\* SimulationEventType
DATA_SENT == "data_sent"
PACKET_ROUTED == "packet_routed"
DATA_RECEIVED == "data_received"
PACKET_RECEIVED == "packet_received"
Emit(event_type, node) == [event_type |-> event_type, node |-> node]

send_data(h, to, d, ty, pr) ==
    /\ h # to
    /\ carrier \in {"none", "done"}
    /\ Create(ClassicDataPacket(d, h, to, ty, pr, NoNode))
    /\ events' = <<Emit(DATA_SENT, h)>>
    /\ carrier' = Gateway(h)
    /\ last' = Call("send_data", h, to, NoQ, -1, "none", <<>>)
    /\ UNCHANGED nonr

route(r) ==
    /\ carrier = r
    /\ to_address # r
    /\ hops' = AppendedHops(r)
    /\ traversals' = traversals + 1
    /\ next_hop' = ForwardingTable(r, to_address)
    /\ carrier' = ForwardingTable(r, to_address)
    /\ events' = Append(events, Emit(PACKET_ROUTED, r))
    /\ last' = Call("route", r, to_address, NoQ, -1, "none", <<>>)
    /\ UNCHANGED <<from_address, to_address, data, type, protocol,
                   destination_address>>
    /\ UNCHANGED nonr

receive(h, event_type) ==
    /\ carrier = h
    /\ to_address = h
    /\ events' = Append(events, Emit(event_type, h))
    /\ carrier' = "done"
    /\ last' = Call("receive", h, "-", NoQ, -1, "none", <<>>)
    /\ UNCHANGED pvars
    /\ UNCHANGED nonr

----------------------------------------------------------------------------
(* Specifications *)

QInitEmpty ==
    /\ network = [n \in NodeIds |-> "none"]
    /\ channels = [c \in ChanIds |-> NoChannel]
    /\ qmemory = [n \in NodeIds |-> NoneMem]
    /\ qmemeory_buffer = [n \in NodeIds |-> <<>>]
    /\ quantum_channels_in = <<>>
    /\ repeater_protocol = "simple_swap"

\* a packet created with any arguments; protocol "tcp" and
\* destination_address None are the defaults of __init__
PacketInit ==
    \E d \in Payloads, f, t \in ClassicNodes, ty \in PacketTypes,
       pr \in PacketProtocols, dest \in ClassicNodes \cup {NoNode} :
        Created(ClassicDataPacket(d, f, t, ty, pr, dest))

----------------------------------------------------------------------------
(* ai_agent/src/orchestration/coordinator.py and agent_manager.py *)

WorkflowTypes == {"LOG_SUMMARIZATION", "TOPOLOGY_WORKFLOW", "ROUTING"}
LOG_SUMMARIZER == "log-summarizer"
TOPOLOGY_DESIGNER == "topology-designer"
CONGESTION_MONITOR == "congestion-monitor"
CoreAgents == {LOG_SUMMARIZER, TOPOLOGY_DESIGNER}
\* the agent_id of a RoutingOutput: None, or the id of an agent
RoutedAgents == {"None", LOG_SUMMARIZER, TOPOLOGY_DESIGNER, CONGESTION_MONITOR}
\* how an awaited agent.run, or the routing chain, ends
Endings == {"returns", "raises"}

\* an entry of active_workflows: its "status", and whether the keys "result"
\* and "error" are set
NoWorkflow == [status |-> "absent", result |-> FALSE, error |-> FALSE]
Running == [status |-> "running", result |-> FALSE, error |-> FALSE]

\* Coordinator._register_core_agents: register_agent raises ValueError for
\* an id that is registered already
initialize_system ==
    /\ IF LOG_SUMMARIZER \in agents
       THEN /\ last' = Call("initialize_system", "coordinator", "-", NoQ, -1,
                            "ValueError", <<>>)
            /\ UNCHANGED agents
       ELSE /\ agents' = agents \cup CoreAgents
            /\ last' = Call("initialize_system", "coordinator", "-", NoQ, -1,
                            "none", <<>>)
    /\ UNCHANGED active_workflows
    /\ UNCHANGED nonw

\* Coordinator._run_agent_task: the exception it ends with
run_agent_task(agent_id, run) ==
    IF agent_id \notin agents THEN "ValueError"
    ELSE IF run = "raises" THEN "Exception"
    ELSE "none"

\* the statements of the try block for workflow w: the exception they end
\* with and whether they mark the workflow completed
TryBlock(w, routed, chain, run) ==
    CASE w = "LOG_SUMMARIZATION" ->
             LET e == run_agent_task(LOG_SUMMARIZER, run)
             IN  [err |-> e, completed |-> e = "none"]
      [] w = "TOPOLOGY_WORKFLOW" ->
             LET e == run_agent_task(TOPOLOGY_DESIGNER, run)
             IN  [err |-> e, completed |-> e = "none"]
      [] w = "ROUTING" ->
             IF chain = "raises" THEN [err |-> "LLMError", completed |-> FALSE]
             ELSE IF routed = "None" THEN [err |-> "none", completed |-> FALSE]
             ELSE IF routed \notin agents
             THEN [err |-> "LLMError", completed |-> FALSE]
             ELSE [err |-> run_agent_task(routed, run), completed |-> FALSE]

\* Coordinator.execute_workflow
execute_workflow(w, routed, chain, run) ==
    LET t == TryBlock(w, routed, chain, run)
    IN  /\ active_workflows' = [active_workflows EXCEPT ![w] =
               IF t.err # "none" THEN [Running EXCEPT !.status = "failed", !.error = TRUE]
               ELSE IF t.completed
               THEN [Running EXCEPT !.status = "completed", !.result = TRUE]
               ELSE Running]
        /\ last' = [Call("execute_workflow", "coordinator", w, NoQ, -1, t.err, <<>>)
                       EXCEPT !.ret = IF t.err # "none" THEN "raised"
                                      ELSE IF w = "ROUTING" THEN "routing_output"
                                      ELSE "result"]
        /\ UNCHANGED agents
        /\ UNCHANGED nonw

\* Coordinator.get_workflow_status
get_workflow_status(w) ==
    /\ last' = [Call("get_workflow_status", "coordinator", w, NoQ, -1, "none", <<>>)
                   EXCEPT !.ret = IF active_workflows[w] = NoWorkflow THEN "not_found"
                                  ELSE active_workflows[w].status]
    /\ UNCHANGED wvars
    /\ UNCHANGED nonw

PInitFixed == Created(ClassicDataPacket("hello", "H1", "H2", "DATA", "tcp", NoNode))

\* SimulationManager.__init__
ManagerInit ==
    /\ is_running = FALSE
    /\ simulation_data = NoData
    /\ simulation_world = NoWorld
    /\ worker = [r \in Runs |-> "none"]
    /\ stopped = {}

MInitFixed == ManagerInit /\ subscriptable = FALSE

\* no adapter is paired, no packet was sent
AInitFixed == pairing = {}
RInitFixed == carrier = "none" /\ events = <<>>
\* Coordinator.__init__ and AgentManager.__init__: no agent, no workflow
CoordinatorInit ==
    /\ agents = {}
    /\ active_workflows = [w \in WorkflowTypes |-> NoWorkflow]
Rest == AInitFixed /\ RInitFixed /\ CoordinatorInit

\* The channel world: a host, a plain node, the repeater and one channel are
\* constructed, and qubits are sent over the channel.
ChannelWorld == {"B", "N", Repeater}

Init == QInitEmpty /\ PInitFixed /\ MInitFixed /\ Rest /\ last = NoCall

Next ==
    \/ \E n \in ChannelWorld, net \in NetworkType : ConstructNode(n, net)
    \/ \E net \in NetworkType : ConstructRepeater(net, "simple_swap")
    \/ \E n1, n2 \in ChannelWorld, len \in Lengths, loss \in LossPerKm,
          noise \in NoiseModels : ChannelInit("c0", n1, n2, len, loss, noise)
    \/ \E q \in Qubits, f \in ChannelWorld, r \in Draws :
          transmit_qubit("c0", q, f, r)

Spec == Init /\ [][Next]_vars

\* The repeater world: hosts A and B, the repeater R, a channel between each
\* host and R (either end may be node_1) and a channel between the hosts.
Link(n1, n2) ==
    [node_1 |-> n1, node_2 |-> n2, length |-> 0, loss_per_km |-> 0,
     noise_model |-> "default"]

InitRepeater ==
    /\ network = [n \in NodeIds |-> IF n = "N" THEN "none" ELSE "quantum_network"]
    /\ \E o0, o1 \in BOOLEAN :
          channels = [c \in ChanIds |->
              CASE c = "c0" -> IF o0 THEN Link("A", Repeater) ELSE Link(Repeater, "A")
                [] c = "c1" -> IF o1 THEN Link("B", Repeater) ELSE Link(Repeater, "B")
                [] OTHER    -> Link("A", "B")]
    /\ qmemory = [n \in NodeIds |-> NoneMem]
    /\ qmemeory_buffer = [n \in NodeIds |-> <<>>]
    /\ quantum_channels_in = <<>>
    /\ repeater_protocol \in Protocols
    /\ PInitFixed
    /\ MInitFixed
    /\ Rest
    /\ last = NoCall

\* what a caller may put into the repeater's qmemory: None, a qubit, or a
\* list of two slots
SlotVals == Qubits \cup {NoQ}
RepeaterMems ==
    {Scalar(v) : v \in SlotVals} \cup {Slots(a, b) : a, b \in SlotVals}

NextRepeater ==
    \/ \E c \in ChanIds : add_quantum_channel_in(c)
    \/ \E m \in RepeaterMems : set_qmemory(Repeater, m)
    \/ \E q \in Qubits : set_qmemory("A", Scalar(q))
    \/ \E n \in {"A", Repeater} : clear_qmemory(n)
    \/ \E q \in Qubits, c \in ChanIds : receive_qubit(q, c)
    \/ \E bit \in {0, 1} : forward(bit)
    \/ \E bit \in {0, 1} : simple_entanglement_swap(bit)

SpecRepeater == InitRepeater /\ [][NextRepeater]_vars

\* The channel in use: one channel, constructed with any parameters between
\* two of a host, a plain node and the repeater, carries any sequence of
\* transmissions and apply_noise calls.
InitChannel ==
    /\ network = [n \in NodeIds |-> IF n \in ChannelWorld THEN "quantum_network" ELSE "none"]
    /\ \E n1, n2 \in ChannelWorld, len \in Lengths, loss \in LossPerKm,
          noise \in NoiseModels :
          /\ n1 # n2
          /\ channels = [c \in ChanIds |->
                 IF c = "c0"
                 THEN [node_1 |-> n1, node_2 |-> n2, length |-> len,
                       loss_per_km |-> loss, noise_model |-> noise]
                 ELSE NoChannel]
    /\ qmemory = [n \in NodeIds |-> NoneMem]
    /\ qmemeory_buffer = [n \in NodeIds |-> <<>>]
    /\ quantum_channels_in = <<>>
    /\ repeater_protocol = "simple_swap"
    /\ PInitFixed
    /\ MInitFixed
    /\ Rest
    /\ last = NoCall

NextChannel ==
    \/ \E q \in Qubits, f \in ChannelWorld, r \in Draws :
          transmit_qubit("c0", q, f, r)
    \/ \E q \in Qubits : call_apply_noise("c0", q)

SpecChannel == InitChannel /\ [][NextChannel]_vars

\* The coordinator: the core agents are registered at some point, workflows
\* are executed and queried in any order.
InitCoordinator ==
    /\ QInitEmpty
    /\ PInitFixed
    /\ MInitFixed
    /\ Rest
    /\ last = NoCall

NextCoordinator ==
    \/ initialize_system
    \/ \E w \in WorkflowTypes, routed \in RoutedAgents, chain, run \in Endings :
          execute_workflow(w, routed, chain, run)
    \/ \E w \in WorkflowTypes : get_workflow_status(w)

SpecCoordinator == InitCoordinator /\ [][NextCoordinator]_vars

\* The node world: a host and a plain node on a quantum network receive
\* qubits through receive_qbit.
NodeWorld == {"A", "N"}

InitNode ==
    /\ network = [n \in NodeIds |-> IF n \in NodeWorld THEN "quantum_network" ELSE "none"]
    /\ channels = [c \in ChanIds |-> NoChannel]
    /\ qmemory = [n \in NodeIds |-> NoneMem]
    /\ qmemeory_buffer = [n \in NodeIds |-> <<>>]
    /\ quantum_channels_in = <<>>
    /\ repeater_protocol = "simple_swap"
    /\ PInitFixed
    /\ MInitFixed
    /\ Rest
    /\ last = NoCall

NextNode ==
    \/ \E n \in NodeWorld, q \in Qubits : receive_qbit(n, q)
    \/ \E n \in NodeWorld, q \in Qubits : set_qmemory(n, Scalar(q))
    \/ \E n \in NodeWorld : call_get_qmemory(n)
    \/ \E n \in NodeWorld : clear_qmemory(n)

SpecNode == InitNode /\ [][NextNode]_vars

\* The simulation manager: requests to start, stop and send a message arrive
\* in any order while the worker threads take their steps.
InitManager ==
    /\ QInitEmpty
    /\ PInitFixed
    /\ ManagerInit
    /\ subscriptable \in BOOLEAN
    /\ Rest
    /\ last = NoCall

NextManager ==
    \/ execute_simulation
    \/ stop_simulation
    \/ \E from, to \in Names : send_simulation_message(from, to)
    \/ \E r \in Runs : worker_mark_running(r)
    \/ \E r \in Runs, ok \in BOOLEAN : worker_build_world(r, ok)
    \/ \E r \in Runs : worker_poll(r)
    \/ \E r \in Runs : worker_complete(r)
    \/ \E r \in Runs : worker_handle_error(r)
    \/ \E r \in Runs : worker_finally(r)

SpecManager == InitManager /\ [][NextManager]_vars

\* The adapters: pairs are assigned and queried in any order.
InitAdapter ==
    /\ QInitEmpty
    /\ PInitFixed
    /\ MInitFixed
    /\ AInitFixed
    /\ RInitFixed
    /\ CoordinatorInit
    /\ last = NoCall

NextAdapter ==
    \/ \E a, b \in AdapterIds : add_paired_adapter(a, b)
    \/ \E a \in AdapterIds : get_paired_adapter(a)

SpecAdapter == InitAdapter /\ [][NextAdapter]_vars

\* The classical network: hosts send packets to one another through the
\* routers, one packet at a time.
InitRouting ==
    /\ QInitEmpty
    /\ PInitFixed
    /\ MInitFixed
    /\ AInitFixed
    /\ RInitFixed
    /\ CoordinatorInit
    /\ last = NoCall

NextRouting ==
    \/ \E h, to \in Hosts, d \in Payloads, ty \in PacketTypes, pr \in PacketProtocols :
          send_data(h, to, d, ty, pr)
    \/ \E r \in Routers : route(r)
    \/ \E h \in Hosts, t \in {DATA_RECEIVED, PACKET_RECEIVED} : receive(h, t)

SpecRouting == InitRouting /\ [][NextRouting]_vars

\* The packet: created, then traversing routers.
InitPacket == QInitEmpty /\ PacketInit /\ MInitFixed /\ Rest /\ last = NoCall

NextPacket ==
    \/ \E hop \in ClassicNodes : append_hop(hop)
    \/ to_dict

SpecPacket == InitPacket /\ [][NextPacket]_vars

----------------------------------------------------------------------------
(* Properties *)

SwapOps == {"forward", "simple_entanglement_swap"}
Outcomes(tr) == SelectSeq(tr, LAMBDA e : e.ev = "entanglement_swap_outcome")
Measurements(tr) == SelectSeq(tr, LAMBDA e : e.ev = "perform_bell_measurement")
Receives(tr) == SelectSeq(tr, LAMBDA e : e.ev = "receive_qubit")

\* the channel of the last transmit_qubit call, and whether its loss draw fired
LastChannel == channels[last.obj]
LastLost == LossFires(last.draw, LastChannel.loss_per_km, LastChannel.length)
LastFromEndpoint == last.arg \in {LastChannel.node_1, LastChannel.node_2}
LastOtherEnd ==
    IF last.arg = LastChannel.node_1 THEN LastChannel.node_2
    ELSE LastChannel.node_1

\* the repeater's two-slot memory: how many slots hold a qubit
FilledSlots(m) ==
    IF m.list THEN Cardinality({i \in 1..Len(m.items) : m.items[i] # NoQ}) ELSE 0
RepeaterReady == FilledSlots(qmemory[Repeater]) >= 2
MemoryEmpty(m) == \A i \in 1..Len(m.items) : m.items[i] = NoQ

\* the last call was a swap that measured and returned
SwapSucceeded ==
    /\ last.op \in SwapOps
    /\ last.err = "none"
    /\ Measurements(last.trace) # <<>>

\* the first two inbound channels each join the repeater and a neighbour
InboundJoinRepeater ==
    /\ Len(quantum_channels_in) >= 2
    /\ \A i \in 1..2 :
          Repeater \in {channels[quantum_channels_in[i]].node_1,
                        channels[quantum_channels_in[i]].node_2}
Neighbour(i) == ToNode(channels[quantum_channels_in[i]], Repeater)

\* the repeater has exactly two inbound channels, to two different neighbours
TwoInbound ==
    /\ Len(quantum_channels_in) = 2
    /\ InboundJoinRepeater
    /\ Neighbour(1) # Neighbour(2)

(* C1: hop monotonicity.  After N append_hop calls the packet has N + 1 hops  *)
(* and the first is from_address; no step shortens hops or changes an entry   *)
(* already in it.                                                             *)
C1_HopMonotonicity ==
    /\ [](Len(hops) = traversals + 1 /\ hops[1] = from_address)
    /\ [][/\ Len(hops') >= Len(hops)
          /\ SubSeq(hops', 1, Len(hops)) = hops]_vars

C1_Witness == traversals = 2 /\ Len(hops) = 3 /\ hops[2] # from_address

(* C2: after a swap that succeeded on a repeater whose two inbound channels   *)
(* join it to its neighbours, the repeater's memory is empty and exactly two  *)
(* entanglement_swap_outcome notifications were sent: to the first neighbour  *)
(* naming the second, and to the second naming the first.                     *)
C2_SwapClearsMemory ==
    (SwapSucceeded /\ InboundJoinRepeater) =>
        /\ MemoryEmpty(qmemory[Repeater])
        /\ Len(Outcomes(last.trace)) = 2
        /\ Outcomes(last.trace)[1].node = Neighbour(1)
        /\ Outcomes(last.trace)[1].peer = Neighbour(2)
        /\ Outcomes(last.trace)[2].node = Neighbour(2)
        /\ Outcomes(last.trace)[2].peer = Neighbour(1)

C2_Witness ==
    /\ SwapSucceeded
    /\ InboundJoinRepeater
    /\ Neighbour(1) = "A"
    /\ Neighbour(2) = "B"
    /\ last.op = "forward"

(* C3: on a channel of length 0 transmit_qubit never raises QubitLossError;   *)
(* on a channel with loss_per_km = 1 and length > 0 every transmit_qubit      *)
(* raises QubitLossError.                                                     *)
C3_LossBound ==
    last.op = "transmit_qubit" =>
        /\ LastChannel.length = 0 => last.err # "QubitLossError"
        /\ (LastChannel.loss_per_km = Scale /\ LastChannel.length > 0)
               => last.err = "QubitLossError"

(* C4: a transmit_qubit from an endpoint whose loss draw does not fire        *)
(* completes without error and delivers apply_noise(qubit) exactly once, to   *)
(* the other endpoint, into that node's memory (the tail of its buffer, or    *)
(* the channel's slot on a repeater).                                         *)
C4_Delivery ==
    (last.op = "transmit_qubit" /\ LastFromEndpoint /\ ~LastLost) =>
        LET noisy == apply_noise(LastChannel.noise_model, last.q)
            to == LastOtherEnd
        IN  /\ last.err = "none"
            /\ Receives(last.trace) = <<Ev("receive_qubit", to, "-", noisy, NoQ, -1)>>
            /\ IF to = Repeater
               THEN \E i \in 1..Len(quantum_channels_in) :
                       /\ quantum_channels_in[i] = last.obj
                       /\ qmemory[Repeater].list
                       /\ qmemory[Repeater].items[i] = noisy
               ELSE /\ qmemeory_buffer[to] # <<>>
                    /\ qmemeory_buffer[to][Len(qmemeory_buffer[to])] = noisy

(* C5: constructing a quantum node or repeater on a network that is not a     *)
(* quantum network fails with UnSupportedNetworkError, and no constructed     *)
(* node has a non-quantum network.                                            *)
C5_TypeSafety ==
    /\ \A n \in NodeIds : network[n] \in {"none", "quantum_network"}
    /\ (last.op = "__init__" /\ last.arg # "quantum_network")
           => last.err = "UnSupportedNetworkError"

C5_Witness ==
    /\ last.op = "__init__"
    /\ last.obj = Repeater
    /\ last.arg = "classical_network"
    /\ last.err = "UnSupportedNetworkError"
    /\ network[Repeater] = "none"
    /\ network["B"] = "quantum_network"

(* C6: whenever the loss draw of transmit_qubit fires, the call ends by       *)
(* raising QubitLossError and no other kind of error.                         *)
C6_TypedLoss ==
    (last.op = "transmit_qubit" /\ LastLost) => last.err = "QubitLossError"

(* C7: transmit_qubit from a node that is neither endpoint of the channel     *)
(* fails with NotConnectedError and delivers the qubit to no node.            *)
C7_NotConnected ==
    (last.op = "transmit_qubit" /\ ~LastFromEndpoint) =>
        /\ last.err = "NotConnectedError"
        /\ Receives(last.trace) = <<>>

(* C8: on a repeater with two inbound channels, receive_qubit(qubit, channel) *)
(* with channel the i-th inbound channel completes without error, stores the  *)
(* qubit in slot i and leaves the other slot unchanged.                       *)
C8_SlotStorage ==
    [][(/\ last'.op = "receive_qubit"
        /\ TwoInbound
        /\ last'.arg \in {quantum_channels_in[1], quantum_channels_in[2]})
       => LET i == IF last'.arg = quantum_channels_in[1] THEN 1 ELSE 2
          IN  /\ last'.err = "none"
              /\ qmemory'[Repeater].list
              /\ qmemory'[Repeater].items[i] = last'.q
              /\ qmemory'[Repeater].items[3 - i] = qmemory[Repeater].items[3 - i]
      ]_vars

C10_Repeatable ==
    [][(/\ SwapSucceeded
        /\ TwoInbound
        /\ last'.op = "receive_qubit"
        /\ last'.arg \in {quantum_channels_in[1], quantum_channels_in[2]})
       => last'.err = "none"
      ]_vars

(* C11: receive_qubit(qubit, channel) with a channel that is not one of the   *)
(* repeater's inbound channels, whatever the number of inbound channels       *)
(* registered, raises no error and leaves every memory slot unchanged.        *)
C11_UnrecognizedChannel ==
    [][(/\ last'.op = "receive_qubit"
        /\ \A i \in 1..Len(quantum_channels_in) : quantum_channels_in[i] # last'.arg)
       => /\ last'.err = "none"
          /\ qmemory' = qmemory
      ]_vars

(* C12: the buffer of a node holds exactly the qubits it received, in the     *)
(* order of arrival: every receive_qbit appends its qubit at the tail and     *)
(* changes nothing else of any buffer, and no arrival is refused by a         *)
(* capacity limit.                                                            *)
C12_FifoBuffer ==
    /\ [](\A n \in NodeWorld, q \in Qubits :
             Len(qmemeory_buffer[n]) < MaxArrivals => ENABLED receive_qbit(n, q))
    /\ [][last'.op = "receive_qbit"
          => LET n == last'.obj
             IN  /\ Len(qmemeory_buffer'[n]) = Len(qmemeory_buffer[n]) + 1
                 /\ SubSeq(qmemeory_buffer'[n], 1, Len(qmemeory_buffer[n]))
                        = qmemeory_buffer[n]
                 /\ qmemeory_buffer'[n][Len(qmemeory_buffer'[n])] = last'.q
                 /\ \A o \in NodeIds \ {n} : qmemeory_buffer'[o] = qmemeory_buffer[o]
         ]_vars

C12_Witness ==
    /\ last.op = "receive_qbit"
    /\ Len(qmemeory_buffer["N"]) = 3
    /\ qmemeory_buffer["N"][1] # qmemeory_buffer["N"][2]
    /\ qmemeory_buffer["N"][3] = qmemeory_buffer["N"][1]

\* the noise models apply_noise names
NamedNoise == {"depolarizing", "dephasing", "amplitude_damping"}

\* apply_noise applied k times in a row
RECURSIVE NoiseTimes(_, _, _)
NoiseTimes(noise, q, k) ==
    IF k = 0 THEN q ELSE apply_noise(noise, NoiseTimes(noise, q, k - 1))

(* C13: on a channel whose noise_model is none of depolarizing, dephasing and *)
(* amplitude_damping, apply_noise returns the qubit it was given, and         *)
(* applying it any number of times gives what applying it once gives.         *)
C13_UnknownNoiseIdentity ==
    (/\ last.op = "transmit_qubit"
     /\ last.trace # <<>>
     /\ LastChannel.noise_model \notin NamedNoise)
    => /\ last.trace[1].ev = "apply_noise"
       /\ last.trace[1].q = last.q
       /\ last.trace[1].q2 = last.q
       /\ \A k \in 1..MaxApplications :
             NoiseTimes(LastChannel.noise_model, last.q, k) = last.trace[1].q2

C13_Witness ==
    /\ last.op = "transmit_qubit"
    /\ LastChannel.noise_model = "bogus"
    /\ Len(last.trace) = 2
    /\ last.trace[1].ev = "apply_noise"
    /\ last.trace[2].q = last.q

(* C14: a packet just created has hops = [from_address] and next_hop =        *)
(* to_address, whatever its data, type, protocol and destination_address.     *)
C14_PacketCreation ==
    last = NoCall => /\ hops = <<from_address>>
                     /\ next_hop = to_address

C14_Witness ==
    /\ last = NoCall
    /\ traversals = 0
    /\ from_address # to_address
    /\ destination_address \notin {NoNode, to_address}
    /\ protocol = "udp"
    /\ data = ""
    /\ type = "ACK"

\* the draw r / Scale of a transmission over channel ch lies below the loss
\* probability 1 - (1 - loss_per_km) ** (length / 1000) of ch
DrawBelowLossProb(r, ch) ==
    LET k == ch.length \div 500
        survive == Pow(Scale - ch.loss_per_km, k)
    IN  Pow(Scale - r, 2) * Pow(Scale, k) > survive * Pow(Scale, 2)

(* C20: a transmission whose loss draw fires applies no noise, calls no       *)
(* receive method and leaves qmemory and qmemeory_buffer of every node, both  *)
(* endpoints included, unchanged.                                             *)
C20_LossIsNoOp ==
    [][(/\ last'.op = "transmit_qubit"
        /\ DrawBelowLossProb(last'.draw, channels[last'.obj]))
       => /\ last'.trace = <<>>
          /\ qmemory' = qmemory
          /\ qmemeory_buffer' = qmemeory_buffer
          /\ channels' = channels
      ]_vars

C20_Witness ==
    /\ last.op = "transmit_qubit"
    /\ DrawBelowLossProb(last.draw, LastChannel)
    /\ last.err # "none"
    /\ last.trace = <<>>
    /\ \E n \in {LastChannel.node_1, LastChannel.node_2} : qmemeory_buffer[n] # <<>>

SendDataEvents(tr) == SelectSeq(tr, LAMBDA e : e.ev = "send_data")
ThreadStarts(tr) == SelectSeq(tr, LAMBDA e : e.ev = "Thread.start")

(* C15: a send-message command on a live World in which from_node_name or     *)
(* to_node_name names no node raises NodesNotFound and does not invoke        *)
(* send_data.                                                                 *)
C15_NodesNotFound ==
    [][(/\ last'.op = "send_simulation_message"
        /\ last'.ret # "-"
        /\ simulation_world # NoWorld
        /\ (last'.obj \notin WorldNodeNames \/ last'.arg \notin WorldNodeNames))
       => /\ last'.err = "NodesNotFound"
          /\ SendDataEvents(last'.trace) = <<>>
      ]_vars

(* C16: once stop() has been called on a running simulation, is_running is    *)
(* false for the manager and for the World of that simulation, so that the    *)
(* worker thread polling the World leaves its loop.                           *)
C16_CooperativeStop ==
    /\ (last.op = "stop_simulation" /\ last.ret # "-") => ~is_running
    /\ \A r \in stopped :
          simulation_world.run = r => ~simulation_world.is_running

(* C17: a start request made while a simulation is running returns False and  *)
(* starts no worker thread, and at most one worker thread is alive at any     *)
(* time, whatever the interleaving of start and stop requests.                *)
C17_SingleWorker ==
    /\ (last.op = "execute_simulation" /\ last.ret = "False")
          => ThreadStarts(last.trace) = <<>>
    /\ Cardinality(AliveWorkers) <= 1

(* C18: an adapter owns at most one pair: pairing an adapter that has a pair  *)
(* raises PairAdapterAlreadyExists and changes no pair, and querying the pair *)
(* of an adapter that has none raises PairAdapterDoesNotExists.               *)
C18_PairingExclusive ==
    /\ [](\A a \in AdapterIds : Cardinality(PairsOf(a)) <= 1)
    /\ [][(last'.op = "add_paired_adapter" /\ PairsOf(last'.obj) # {})
          => (last'.err = "PairAdapterAlreadyExists" /\ pairing' = pairing)]_vars
    /\ [][(last'.op = "get_paired_adapter" /\ PairsOf(last'.obj) = {})
          => (last'.err = "PairAdapterDoesNotExists" /\ pairing' = pairing)]_vars

C18_Witness ==
    /\ last.op = "add_paired_adapter"
    /\ last.err = "PairAdapterAlreadyExists"
    /\ PairsOf(last.obj) # {}
    /\ <<last.obj, last.arg>> \notin pairing
    /\ \E a \in AdapterIds : PairsOf(a) = {}

C21_SwapMeasuresOwnSlots ==
    [][(last'.op \in SwapOps /\ TwoInbound /\ Measurements(last'.trace) # <<>>)
       => LET bell == Measurements(last'.trace)[1]
              own == qmemory[Repeater]
          IN  /\ own.list
              /\ bell.m1 = Scalar(own.items[1])
              /\ bell.m2 = Scalar(own.items[2])
      ]_vars

ErrorEvents(tr) == SelectSeq(tr, LAMBDA e : e.ev = "emit_event" /\ e.node = "simulation_error")

(* C22: for every pair of names that both name nodes of the live World,       *)
(* send_message_command invokes send_data exactly once, on the node named     *)
(* from_node_name and with the node named to_node_name, and emits no          *)
(* "simulation_error".                                                        *)
C22_MessageDispatch ==
    [][(/\ last'.op = "send_simulation_message"
        /\ last'.ret # "-"
        /\ simulation_world # NoWorld
        /\ last'.obj \in WorldNodeNames
        /\ last'.arg \in WorldNodeNames)
       => /\ Len(SendDataEvents(last'.trace)) = 1
          /\ SendDataEvents(last'.trace)[1].node = last'.obj
          /\ SendDataEvents(last'.trace)[1].peer = last'.arg
          /\ ErrorEvents(last'.trace) = <<>>
      ]_vars

(* C23: in a single swap the Bell measurement is performed exactly once, its  *)
(* result is 0 or 1, and every entanglement_swap_outcome notification of the  *)
(* swap carries that result; a swap that completes sends two of them.         *)
C23_OneMeasurementOneOutcome ==
    (last.op \in SwapOps /\ Measurements(last.trace) # <<>>)
    => LET bell == Measurements(last.trace)
           outs == Outcomes(last.trace)
       IN  /\ Len(bell) = 1
           /\ bell[1].res \in {0, 1}
           /\ \A i \in 1..Len(outs) : outs[i].res = bell[1].res
           /\ last.err = "none" => Len(outs) = 2

C23_Witness ==
    /\ SwapSucceeded
    /\ Len(Outcomes(last.trace)) = 2
    /\ Measurements(last.trace)[1].res = 1
    /\ Outcomes(last.trace)[2].res = 1

(* C24: append_hop(node) appends exactly one entry, node, to hops and leaves  *)
(* next_hop, from_address, to_address, destination_address, data and protocol *)
(* unchanged; no other operation of the packet changes hops.                  *)
C24_AppendHopFrame ==
    [][/\ last'.op = "append_hop"
          => /\ hops' = Append(hops, last'.arg)
             /\ UNCHANGED <<next_hop, from_address, to_address,
                            destination_address, data, protocol>>
       /\ last'.op # "append_hop" => hops' = hops
      ]_vars

C24_Witness ==
    /\ last.op = "append_hop"
    /\ traversals = 2
    /\ hops[3] = last.arg
    /\ next_hop = to_address
    /\ next_hop # last.arg
    /\ destination_address # NoNode

(* C25: get_qmemory returns the argument of the most recent set_qmemory since *)
(* the last clear_qmemory, and None initially or after clear_qmemory: a node  *)
(* starts with None, set_qmemory leaves its argument in qmemory, clear_qmemory*)
(* leaves None, get_qmemory returns what qmemory holds, and nothing else      *)
(* changes qmemory.  set, get and clear never change qmemeory_buffer, and an  *)
(* arrival enqueued by receive_qbit never changes qmemory.                    *)
C25_MemoryRoundTrip ==
    /\ [](last = NoCall => \A n \in NodeIds : qmemory[n] = NoneMem)
    /\ [][LET n == last'.obj
          IN  /\ last'.op = "set_qmemory"
                    => qmemory' = [qmemory EXCEPT ![n] = Scalar(last'.q)]
              /\ last'.op = "clear_qmemory"
                    => qmemory' = [qmemory EXCEPT ![n] = NoneMem]
              /\ last'.op = "get_qmemory"
                    => (last'.q = qmemory[n].items[1] /\ qmemory' = qmemory)
              /\ last'.op \in {"set_qmemory", "get_qmemory", "clear_qmemory"}
                    => qmemeory_buffer' = qmemeory_buffer
              /\ last'.op = "receive_qbit" => qmemory' = qmemory
         ]_vars

C25_Witness ==
    /\ last.op = "get_qmemory"
    /\ last.q # NoQ
    /\ last.q = qmemory[last.obj].items[1]
    /\ qmemeory_buffer[last.obj] # <<>>
    /\ qmemeory_buffer[last.obj][1] # last.q

\* the arguments of the call `last` records
Inputs(l) == <<l.op, l.obj, l.arg, l.q, l.draw>>

LeavesHandler(r) == worker[r] = "except" /\ worker'[r] = "finally"

(* C27: when world construction or the polling loop raised inside the         *)
(* simulation worker, the worker leaves its exception handler with the        *)
(* simulation's status FAILED.                                                *)
C27_FailureEndsFailed ==
    [][\A r \in Runs : LeavesHandler(r) => simulation_data'.status = "FAILED"]_vars

\* the World the manager holds is the one built for the current simulation
LiveWorld == simulation_world # NoWorld /\ simulation_world.run = simulation_data.pk

(* C28: in every reachable state in which is_running is true, simulation_world *)
(* is the constructed World of the current simulation, neither unset nor the  *)
(* World of an earlier run.                                                   *)
C28_RunningImpliesLiveWorld == is_running => LiveWorld

\* the worker of an earlier run takes a step
EarlierWorkerStep(r) ==
    /\ r # simulation_data.pk
    /\ worker[r] # "none"
    /\ worker'[r] # worker[r]

(* C29: after stop() and a new successful start_simulation, while the new     *)
(* simulation's World is running no step of the earlier run's worker sets     *)
(* is_running to false or changes the status of the new simulation.           *)
C29_FinishingWorkerOwnRun ==
    [][\A r \in Runs :
          (EarlierWorkerStep(r) /\ is_running /\ LiveWorld /\ simulation_world.is_running)
             => (is_running' /\ simulation_data'.status = simulation_data.status)
      ]_vars

(* C30: for every workflow type, once execute_workflow has returned the       *)
(* status recorded in active_workflows for that workflow is "completed", and  *)
(* once it has raised the status is "failed".                                 *)
C30_WorkflowStatusTerminal ==
    last.op = "execute_workflow"
       => active_workflows[last.arg].status =
             IF last.err = "none" THEN "completed" ELSE "failed"

====
